---------------------------- MODULE Spec2Model ----------------------------
(***************************************************************************)
(* A model of scripts/pr_agent.py: the hourly pull-request agent.  One run *)
(* checks its configuration, makes sure the three CI labels exist, lists   *)
(* the open pull requests page by page and then, for every listed PR,      *)
(* classifies its check runs, reconciles the CI label, upserts the bot     *)
(* comment and, when allowed, requests a squash merge.                     *)
(*                                                                         *)
(* Every platform request of the script is one step of the model.  A       *)
(* request ends in one of five ways (see Outcomes): the platform answers,  *)
(* the platform answers with an HTTP error (which _request turns into      *)
(* None), the platform carries the request out and answers with an empty   *)
(* body (None as well), the request raises something that is no HTTPError  *)
(* before the platform has done anything, or it raises while the answer is *)
(* read, after the platform has carried the request out; nothing in the    *)
(* script catches the last two.  Between two requests other users of the   *)
(* repository may change labels, check runs and comments, push commits to  *)
(* a PR and open PRs.  Runs may overlap.                                   *)
(***************************************************************************)
EXTENDS Integers, Sequences, FiniteSets, TLC

(***************************************************************************)
(* Bounds of the model.                                                    *)
(***************************************************************************)
NumPRs == 2            \* pull requests of the repository
NumAgents == 2         \* runs of the agent in one behaviour
PerPage == 1           \* page size of the PR listing (per_page=100 in the script), scaled down
CommentsPerPage == 1   \* page size of the platform's comment listing, scaled down
ChecksPerPage == 2     \* page size of the check-run listing (per_page=100 in the script), scaled down
MaxFaults == 1         \* requests of one behaviour that end otherwise than in the expected answer
MaxEnv == 1            \* changes made by other users in one behaviour
MaxRuns == 2           \* check runs in one input to the classifier

PRs == 1..NumPRs
Agents == 1..NumAgents

(***************************************************************************)
(* Configuration constants of the script (lines 36-42).                    *)
(***************************************************************************)
BOT_COMMENT_MARKER == "<!-- pr-agent-bot -->"
LABEL_PASSING == "ci-passing"
LABEL_FAILING == "ci-failing"
LABEL_NEEDS_REVIEW == "needs-review"
LABEL_AUTO_MERGE == "auto-merge"
CI_LABELS == {LABEL_PASSING, LABEL_FAILING, LABEL_NEEDS_REVIEW}

\* A label the agent knows nothing about.
OTHER_LABEL == "bug"
Labels == CI_LABELS \cup {LABEL_AUTO_MERGE, OTHER_LABEL}

(***************************************************************************)
(* Check runs: a status and a conclusion; NoConclusion is a conclusion     *)
(* that is absent or null.                                                 *)
(***************************************************************************)
NoConclusion == "null"
RunStatuses == {"queued", "in_progress", "completed"}
Conclusions == {NoConclusion, "success", "neutral", "skipped", "failure",
                "timed_out", "cancelled", "action_required", "stale"}
CheckRun == [status : RunStatuses, conclusion : Conclusions]

Range(s) == {s[i] : i \in DOMAIN s}

SeqsUpTo(S, n) == UNION {[1..k -> S] : k \in 0..n}

\* A variant of ci_status_of_runs that looks for a failure before it looks for a run
\* that is not completed.
ci_status_failure_first(runs) ==
    LET conclusions == {r.conclusion : r \in Range(runs)} \ {NoConclusion}
    IN  IF runs = <<>> THEN "pending"
        ELSE IF conclusions \cap {"failure", "timed_out", "cancelled"} # {} THEN "failing"
        ELSE IF \E r \in Range(runs) : r.status # "completed" THEN "pending"
        ELSE IF conclusions = {} THEN "pending"
        ELSE IF \A c \in conclusions : c \in {"success", "neutral", "skipped"}
             THEN "passing"
        ELSE "pending"

\* A variant of ci_status_of_runs that is content with one good conclusion.
ci_status_any_success(runs) ==
    IF runs = <<>> THEN "pending"
    ELSE IF \E r \in Range(runs) : r.status # "completed" THEN "pending"
    ELSE LET conclusions == {r.conclusion : r \in Range(runs)} \ {NoConclusion}
         IN  IF conclusions = {} THEN "pending"
             ELSE IF "failure" \in conclusions \/ "timed_out" \in conclusions
                      \/ "cancelled" \in conclusions THEN "failing"
             ELSE IF \E c \in conclusions : c \in {"success", "neutral", "skipped"}
                  THEN "passing"
             ELSE "pending"

(***************************************************************************)
(* _ci_status, lines 123-136: the classification of the check runs of a    *)
(* commit, once the check-run request has answered.                        *)
(***************************************************************************)
ci_status_of_runs(runs) ==
    IF runs = <<>> THEN "pending"
    ELSE IF \E r \in Range(runs) : r.status # "completed" THEN "pending"
    ELSE LET conclusions == {r.conclusion : r \in Range(runs)} \ {NoConclusion}
         IN  IF conclusions = {} THEN "pending"
             ELSE IF "failure" \in conclusions \/ "timed_out" \in conclusions
                      \/ "cancelled" \in conclusions THEN "failing"
             ELSE IF \A c \in conclusions : c \in {"success", "neutral", "skipped"}
                  THEN "passing"
             ELSE "pending"


(***************************************************************************)
(* _handle_pr, lines 177-182: the label of each CI state.                  *)
(***************************************************************************)
label_map(status) ==
    CASE status = "passing" -> LABEL_PASSING
      [] status = "failing" -> LABEL_FAILING
      [] status = "pending" -> LABEL_NEEDS_REVIEW

\* Variants of stale_labels: one that forgets needs-review among the CI labels, one
\* that forgets to keep to the CI labels.
stale_labels_two(existing, new_label) ==
    existing \cap ({LABEL_PASSING, LABEL_FAILING} \ {new_label})
stale_labels_unfiltered(existing, new_label) == existing \ {new_label}

(***************************************************************************)
(* _set_ci_label, line 107: existing & _CI_LABELS - {new_label}.  Python's *)
(* - binds tighter than &: existing & (_CI_LABELS - {new_label}).          *)
(***************************************************************************)
stale_labels(existing, new_label) == existing \cap (CI_LABELS \ {new_label})

\* A variant of needs_add that always adds.
needs_add_always(existing, new_label) == TRUE

\* _set_ci_label, line 110: the addition is requested when the label is not in existing.
needs_add(existing, new_label) == new_label \notin existing

(***************************************************************************)
(* Comment bodies are sequences of tokens; `marker in body` (line 148) is  *)
(* the search for the marker token.                                        *)
(***************************************************************************)
contains_marker(body) == \E i \in DOMAIN body : body[i] = BOT_COMMENT_MARKER

\* _handle_pr, lines 186-195: the status table, reduced to the fields that vary.
comment_text(status, target_label) == <<"CI Status", status, "Label applied", target_label>>

\* _upsert_comment, line 154: f"{_BOT_COMMENT_MARKER}\n{body}".
full_body(body) == <<BOT_COMMENT_MARKER, "\n">> \o body

(***************************************************************************)
(* The platform's answer to the comment listing of line 144: the request   *)
(* names no page, so the answer is the first page only.                    *)
(***************************************************************************)
first_page(cs) == SubSeq(cs, 1, IF Len(cs) < CommentsPerPage THEN Len(cs) ELSE CommentsPerPage)

(***************************************************************************)
(* _bot_comment_id, lines 145-150, on the listed comments: the id of the   *)
(* first comment that holds the marker, 0 for None (ids are positive, and  *)
(* line 156 takes 0 for None as well).                                     *)
(***************************************************************************)
bot_comment_id(listed) ==
    LET marked == {i \in DOMAIN listed : contains_marker(listed[i].body)}
    IN  IF marked = {} THEN 0
        ELSE listed[CHOOSE i \in marked : \A j \in marked : i <= j].id

\* A variant of should_merge that lets a pending PR through.
should_merge_not_failing(status, current) ==
    status # "failing" /\ LABEL_AUTO_MERGE \in current

\* _handle_pr, line 198: the merge is requested for a passing PR that carried auto-merge.
should_merge(status, current) == status = "passing" /\ LABEL_AUTO_MERGE \in current

(***************************************************************************)
(* _handle_pr, lines 204-208: what is reported for the answer to the merge *)
(* request.  An answer is None, or a dict with or without a true "merged". *)
(***************************************************************************)
NoneResponse == [kind |-> "None", merged |-> FALSE]
merge_report(merge_result) ==
    IF merge_result.kind # "None" /\ merge_result.merged THEN "merged" ELSE "failed"

\* A variant of config_ok that forgets the repository name.
config_ok_token_only(token, repo) == token

\* main, lines 212-217: both configuration values are needed.
config_ok(token, repo) == token /\ repo

\* main, lines 222-224: the labels made sure of, in this order.
ENSURED == <<LABEL_PASSING, LABEL_FAILING, LABEL_NEEDS_REVIEW>>


(***************************************************************************)
(* The state.  The platform: the labels defined in the repository, and per *)
(* pull request whether it is open, its labels, the check runs of its head *)
(* commit and of its former head commits, and its comments (oldest first). *)
(* The commits of a PR are numbered from 1 in the order they were pushed.  *)
(* The agent: ag[a] holds the position and the locals of run a.            *)
(***************************************************************************)
VARIABLES
    registry,    \* the labels defined in the repository
    open,        \* open[p]: PR p is open
    labels,      \* labels[p]: the labels on PR p
    checks,      \* checks[p]: the check runs of the head commit of PR p
    past,        \* past[p]: the check runs of the former head commits of PR p, oldest first
    comments,    \* comments[p]: the comments on PR p, records [id, body]
    nextId,      \* the id the platform gives to the next comment
    ag,          \* ag[a]: position, locals and exit code of run a
    hist,        \* hist[a][p]: what run a did for PR p (history)
    epoch,       \* epoch[p]: changes of the labels of PR p by other users (history)
    faults,      \* failed requests so far
    envMoves,    \* changes by other users so far
    cr_result,   \* the classifier alone: the answer to the check-run request
    cr_status    \* the classifier alone: the state returned

vars == <<registry, open, labels, checks, past, comments, nextId, ag, hist, epoch,
          faults, envMoves, cr_result, cr_status>>
platform == <<registry, open, labels, checks, past, comments, nextId>>
classifier == <<cr_result, cr_status>>

\* _request, lines 62-69, returns None for an empty answer and for an HTTP error.
None == [kind |-> "None", check_runs |-> <<>>]
CheckRunsAnswer(runs) == [kind |-> "dict", check_runs |-> runs]

(***************************************************************************)
(* _ci_status, lines 120-136, on the answer to the check-run request.      *)
(***************************************************************************)
ci_status(result) ==
    IF result.kind = "None" THEN "pending" ELSE ci_status_of_runs(result.check_runs)

(***************************************************************************)
(* The ways a request can end (_request, lines 62-69): "ok", the platform  *)
(* answered; "http_error", urlopen raised HTTPError, which is printed and  *)
(* becomes None; "raise", urlopen raised another error (URLError, a reset  *)
(* connection) and the request never reached the platform; "lost", the     *)
(* platform carried the request out and its answer raised in lines 64-65   *)
(* (resp.read() breaks off, json.loads meets a body that is no JSON);      *)
(* "empty", the platform carried the request out and answered with an      *)
(* empty body, for which line 65 returns None and raises nothing.          *)
(* _request catches neither "raise" nor "lost", and they end the run.      *)
(***************************************************************************)
Outcomes ==
    IF faults < MaxFaults THEN {"ok", "http_error", "raise", "lost", "empty"} ELSE {"ok"}
\* The platform carried the request out.
carried(o) == o \in {"ok", "lost", "empty"}
\* _request raised an error it does not catch.
raised(o) == o \in {"raise", "lost"}
\* _request returned None for want of an answer (line 69, or line 65 on an empty body).
returned_none(o) == o \in {"http_error", "empty"}

\* The requests whose answer the script looks at (lines 98, 121, 145, 204, 230).
AnswerRead == {"label_get", "check_runs", "comment_list", "merge", "pr_list"}

(***************************************************************************)
(* The request `kind` failed as far as the script can tell or the platform *)
(* is concerned: it was refused with an HTTP error, or its answer was read *)
(* and there was none.  A request carried out whose answer is not looked   *)
(* at did not fail.                                                        *)
(***************************************************************************)
failed_call(kind, o) == o = "http_error" \/ (o = "empty" /\ kind \in AnswerRead)
Count(o) == faults' = IF o = "ok" THEN faults ELSE faults + 1

\* The open PRs as the platform lists them: newest (highest number) first.
OpenList ==
    LET S == {p \in PRs : open[p]}
    IN  CHOOSE s \in [1..Cardinality(S) -> S] :
            \A i, j \in 1..Cardinality(S) : i < j => s[i] > s[j]

\* /pulls?state=open&per_page=..&page=n (line 229): the n-th page of the listing.
page_of(list, n) ==
    LET first == (n - 1) * PerPage + 1
        last == IF n * PerPage < Len(list) THEN n * PerPage ELSE Len(list)
    IN  SubSeq(list, first, last)

\* The head commit of PR p (pr["head"]["sha"] in the listing, line 169).
head(p) == Len(past[p]) + 1

(***************************************************************************)
(* /commits/{sha}/check-runs?per_page=.. (line 120): the answer to the one *)
(* request the script makes, the first page of the check runs of commit    *)
(* sha of PR p.                                                            *)
(***************************************************************************)
check_runs_of(p, sha) ==
    LET runs == IF sha = head(p) THEN checks[p] ELSE past[p][sha]
    IN  SubSeq(runs, 1, IF Len(runs) < ChecksPerPage THEN Len(runs) ELSE ChecksPerPage)

IdleAgent == [pc |-> "idle", exit |-> -1, crashed |-> FALSE, token |-> TRUE,
              repo |-> TRUE, ens |-> 1, page |-> 1, prs |-> <<>>, idx |-> 0,
              status |-> "none", stale |-> {}, comment_id |-> 0,
              calls |-> {}, failed |-> {}, overlapped |-> FALSE, before |-> {}]

\* Run a has started and has not ended.
UnderWay(a) == ag[a].pc \notin {"idle", "done"}

Unset == [kind |-> "unset", merged |-> FALSE]
NoHistory == [listed |-> FALSE, epoch |-> 0, existing |-> {}, sha |-> 0,
              mergedSha |-> 0, status |-> "none",
              labelReqs |-> {}, labelsDone |-> FALSE, commentOp |-> "none",
              commentId |-> 0, commentBody |-> <<>>, upsertDone |-> FALSE,
              mergeReqs |-> 0, mergeResult |-> Unset, report |-> "none",
              handled |-> FALSE, failed |-> {}, failedReqs |-> {}]

(***************************************************************************)
(* The starting states: a repository with up to NumPRs open PRs.  The      *)
(* first PR starts with any set of labels and any of the check-run lists   *)
(* below, the others with fewer, which keeps the number of states down.    *)
(***************************************************************************)
Run(st, c) == [status |-> st, conclusion |-> c]
\* ChecksPerPage successful runs and a failed one that the listing gives last.
FailureLast ==
    [i \in 1..(ChecksPerPage + 1) |->
        IF i <= ChecksPerPage THEN Run("completed", "success") ELSE Run("completed", "failure")]
CheckChoices ==
    { <<>>,
      <<Run("completed", "success"), Run("completed", "skipped")>>,
      <<Run("completed", "success"), Run("completed", "failure")>>,
      <<Run("in_progress", NoConclusion), Run("completed", "failure")>>,
      FailureLast }
InitLabels(p) ==
    IF p = 1 THEN SUBSET Labels ELSE {{LABEL_FAILING, LABEL_AUTO_MERGE}}
InitChecks(p) ==
    IF p = 1 THEN CheckChoices
    ELSE {<<Run("completed", "success"), Run("completed", "skipped")>>}
UserComment(id) == [id |-> id, body |-> <<"LGTM">>]
\* PR p starts without comments, or (the first PR) with a full page of comments of users.
InitComments(p) ==
    {<<>>} \cup (IF p = 1 THEN {[i \in 1..CommentsPerPage |-> UserComment(i)]} ELSE {})

Quiet ==
    /\ ag = [a \in Agents |-> IdleAgent]
    /\ hist = [a \in Agents |-> [p \in PRs |-> NoHistory]]
    /\ epoch = [p \in PRs |-> 0]
    /\ faults = 0
    /\ envMoves = 0
    /\ nextId = CommentsPerPage + 1

Init ==
    /\ Quiet
    /\ registry = {LABEL_PASSING, LABEL_FAILING}
    /\ open \in {f \in [PRs -> BOOLEAN] : f[1]}
    /\ labels \in {f \in [PRs -> SUBSET Labels] : \A p \in PRs : f[p] \in InitLabels(p)}
    /\ checks \in {f \in [PRs -> CheckChoices] : \A p \in PRs : f[p] \in InitChecks(p)}
    /\ past = [p \in PRs |-> <<>>]
    /\ comments \in {f \in [PRs -> {<<>>} \cup UNION {InitComments(p) : p \in PRs}] :
                        \A p \in PRs : f[p] \in InitComments(p)}
    /\ cr_result = None
    /\ cr_status = "none"


(***************************************************************************)
(* Steps of a run.  s is the record ag[a] of the run.                      *)
(***************************************************************************)
\* The request `kind` was issued and _request returned (o is "ok", "http_error" or "empty").
called(s, kind, o) ==
    [s EXCEPT !.calls = @ \cup {kind},
              !.failed = IF failed_call(kind, o) THEN @ \cup {kind} ELSE @]

\* An error that nothing catches ends the run: Python prints the traceback and exits with 1.
crash(s, kind) ==
    [s EXCEPT !.pc = "done", !.exit = 1, !.crashed = TRUE, !.calls = @ \cup {kind}]

\* main, lines 222-224: the next _ensure_label_exists, or the listing.
after_ensure(s) ==
    IF s.ens < Len(ENSURED) THEN [s EXCEPT !.pc = "ensure_get", !.ens = @ + 1]
    ELSE [s EXCEPT !.pc = "list"]

\* main, lines 239-242: the next PR of the list, or the end of the run (exit code 0).
next_pr(s) ==
    IF s.idx < Len(s.prs) THEN [s EXCEPT !.pc = "status", !.idx = @ + 1]
    ELSE [s EXCEPT !.pc = "done", !.exit = 0]

\* A variant of list_failed that takes the failed page for an empty one.
list_failed_as_empty(s) == next_pr(s)

\* main, lines 230-232: a page that is no list: "Failed to fetch open PRs." and exit code 1.
list_failed(s) == [s EXCEPT !.pc = "done", !.exit = 1]

\* A variant of last_page that takes a full page for the last one.
last_page_at_most(page_data) == Len(page_data) <= PerPage

\* main, line 234: a page shorter than the page size ends the listing.
last_page(page_data) == Len(page_data) < PerPage

\* _handle_pr, lines 167-170: the PR being handled, its head commit and its labels as listed.
number(s) == s.prs[s.idx].number
sha(s) == s.prs[s.idx].sha
current(s) == s.prs[s.idx].labels

\* A variant of after_label_request that adds the new label before it removes the stale ones.
after_label_request_add_first(s) ==
    IF needs_add(current(s), label_map(s.status)) THEN "add"
    ELSE IF s.stale # {} THEN "delete"
    ELSE "comment_list"

\* _set_ci_label, lines 108-111: the next label request, or the comment upsert.
after_label_request(s) ==
    IF s.stale # {} THEN "delete"
    ELSE IF needs_add(current(s), label_map(s.status)) THEN "add"
    ELSE "comment_list"

(***************************************************************************)
(* main, lines 212-217: the run starts; without GITHUB_TOKEN or            *)
(* GITHUB_REPOSITORY it exits with 1.  Nothing keeps a run from starting   *)
(* while another is under way; `overlapped` remembers that it happened and *)
(* `before` which runs had started already (history).                      *)
(***************************************************************************)
Start(a) ==
    /\ ag[a].pc = "idle"
    /\ \E token, repo \in BOOLEAN :
          ag' = [b \in Agents |->
                    IF b # a
                    THEN [ag[b] EXCEPT !.overlapped = @ \/ (UnderWay(b) /\ config_ok(token, repo))]
                    ELSE IF config_ok(token, repo)
                    THEN [ag[a] EXCEPT !.token = token, !.repo = repo, !.pc = "ensure_get",
                                       !.overlapped = \E c \in Agents : UnderWay(c),
                                       !.before = {c \in Agents : ag[c].pc # "idle"}]
                    ELSE [ag[a] EXCEPT !.token = token, !.repo = repo, !.pc = "done",
                                       !.exit = 1,
                                       !.before = {c \in Agents : ag[c].pc # "idle"}]]
    /\ UNCHANGED <<platform, hist, epoch, faults, envMoves, classifier>>

(***************************************************************************)
(* _ensure_label_exists, line 97: GET the label; None (an HTTP error, 404  *)
(* for a label that does not exist) leads to its creation.                 *)
(***************************************************************************)
EnsureGet(a) ==
    /\ ag[a].pc = "ensure_get"
    /\ \E o \in Outcomes :
          /\ Count(o)
          /\ ag' = [ag EXCEPT ![a] =
                IF raised(o) THEN crash(@, "label_get")
                ELSE IF returned_none(o) \/ ENSURED[@.ens] \notin registry
                     THEN [called(@, "label_get", o) EXCEPT !.pc = "ensure_post"]
                     ELSE after_ensure(called(@, "label_get", o))]
    /\ UNCHANGED <<platform, hist, epoch, envMoves, classifier>>

(***************************************************************************)
(* _ensure_label_exists, line 99: POST the label.  The platform refuses a  *)
(* label that exists already; either way the answer is not looked at.      *)
(***************************************************************************)
EnsurePost(a) ==
    /\ ag[a].pc = "ensure_post"
    /\ \E o \in Outcomes :
          /\ Count(o)
          /\ registry' = IF carried(o) THEN registry \cup {ENSURED[ag[a].ens]}
                          ELSE registry
          /\ ag' = [ag EXCEPT ![a] =
                IF raised(o) THEN crash(@, "label_create")
                ELSE after_ensure(called(@, "label_create", o))]
    /\ UNCHANGED <<open, labels, checks, past, comments, nextId, hist, epoch, envMoves,
                   classifier>>

(***************************************************************************)
(* main, lines 228-236: one page of the open PRs.  An answer that is no    *)
(* list ends the run with exit code 1; a short page ends the listing.      *)
(***************************************************************************)
ListPage(a) ==
    /\ ag[a].pc = "list"
    /\ \E o \in Outcomes :
          /\ Count(o)
          /\ LET page_data == [i \in DOMAIN page_of(OpenList, ag[a].page) |->
                                  [number |-> page_of(OpenList, ag[a].page)[i],
                                   sha |-> head(page_of(OpenList, ag[a].page)[i]),
                                   labels |-> labels[page_of(OpenList, ag[a].page)[i]]]]
                 prs == ag[a].prs \o page_data
             IN  /\ ag' = [ag EXCEPT ![a] =
                       IF raised(o) THEN crash(@, "pr_list")
                       ELSE IF returned_none(o)
                       THEN list_failed(called(@, "pr_list", o))
                       ELSE IF last_page(page_data)
                       THEN next_pr([called(@, "pr_list", o) EXCEPT !.prs = prs])
                       ELSE [called(@, "pr_list", o) EXCEPT !.prs = prs, !.page = @ + 1]]
                 /\ hist' = [hist EXCEPT ![a] = [p \in PRs |->
                       IF o = "ok" /\ \E i \in DOMAIN page_data : page_data[i].number = p
                       THEN [@[p] EXCEPT !.listed = TRUE, !.epoch = epoch[p],
                                         !.existing = labels[p], !.sha = head(p)]
                       ELSE @[p]]]
    /\ UNCHANGED <<platform, epoch, envMoves, classifier>>

(***************************************************************************)
(* _handle_pr, lines 174-183: the check runs of the head commit are read   *)
(* and classified; the stale labels follow from the labels as listed.      *)
(***************************************************************************)
CiStatus(a) ==
    /\ ag[a].pc = "status"
    /\ \E o \in Outcomes :
          /\ Count(o)
          /\ LET p == number(ag[a])
                 result == IF o = "ok" THEN CheckRunsAnswer(check_runs_of(p, sha(ag[a])))
                           ELSE None
                 status == ci_status(result)
                 stale == stale_labels(current(ag[a]), label_map(status))
             IN  /\ ag' = [ag EXCEPT ![a] =
                       IF raised(o) THEN crash(@, "check_runs")
                       ELSE LET s == [called(@, "check_runs", o) EXCEPT
                                         !.status = status, !.stale = stale]
                            IN  [s EXCEPT !.pc = after_label_request(s)]]
                 /\ hist' = [hist EXCEPT ![a][p] =
                       IF raised(o) THEN @
                       ELSE [@ EXCEPT !.status = status,
                                      !.failed = IF failed_call("check_runs", o)
                                                 THEN @ \cup {"check_runs"} ELSE @,
                                      !.labelsDone = after_label_request(
                                          [ag[a] EXCEPT !.status = status, !.stale = stale])
                                          = "comment_list"]]
    /\ UNCHANGED <<platform, epoch, envMoves, classifier>>


(***************************************************************************)
(* _set_ci_label, lines 108-109: DELETE one stale label (the loop runs     *)
(* over a set, in no stated order).  The answer is not looked at.          *)
(***************************************************************************)
DeleteLabel(a) ==
    /\ ag[a].pc = "delete"
    /\ \E lbl \in ag[a].stale, o \in Outcomes :
          /\ Count(o)
          /\ LET p == number(ag[a])
                 s == [called(ag[a], "label_delete", o) EXCEPT !.stale = @ \ {lbl}]
             IN  /\ labels' = IF carried(o) THEN [labels EXCEPT ![p] = @ \ {lbl}]
                              ELSE labels
                 /\ ag' = [ag EXCEPT ![a] =
                       IF raised(o) THEN crash(@, "label_delete")
                       ELSE [s EXCEPT !.pc = after_label_request(s)]]
                 /\ hist' = [hist EXCEPT ![a][p] =
                       [@ EXCEPT !.labelReqs = @ \cup {<<"DELETE", lbl>>},
                                 !.failed = IF failed_call("label_delete", o) \/ raised(o)
                                            THEN @ \cup {"label_delete"} ELSE @,
                                 !.failedReqs = IF carried(o) THEN @
                                                ELSE @ \cup {<<"DELETE", lbl>>},
                                 !.labelsDone = ~raised(o)
                                                /\ after_label_request(s) = "comment_list"]]
    /\ UNCHANGED <<registry, open, checks, past, comments, nextId, epoch, envMoves,
                   classifier>>

(***************************************************************************)
(* _set_ci_label, lines 110-111: POST the new label.                       *)
(***************************************************************************)
AddLabel(a) ==
    /\ ag[a].pc = "add"
    /\ \E o \in Outcomes :
          /\ Count(o)
          /\ LET p == number(ag[a])
                 new_label == label_map(ag[a].status)
             IN  /\ labels' = IF carried(o) THEN [labels EXCEPT ![p] = @ \cup {new_label}]
                              ELSE labels
                 /\ ag' = [ag EXCEPT ![a] =
                       IF raised(o) THEN crash(@, "label_add")
                       ELSE [called(@, "label_add", o) EXCEPT !.pc = "comment_list"]]
                 /\ hist' = [hist EXCEPT ![a][p] =
                       [@ EXCEPT !.labelReqs = @ \cup {<<"POST", new_label>>},
                                 !.failed = IF failed_call("label_add", o) \/ raised(o)
                                            THEN @ \cup {"label_add"} ELSE @,
                                 !.failedReqs = IF carried(o) THEN @
                                                ELSE @ \cup {<<"POST", new_label>>},
                                 !.labelsDone = ~raised(o)]]
    /\ UNCHANGED <<registry, open, checks, past, comments, nextId, epoch, envMoves,
                   classifier>>

(***************************************************************************)
(* _bot_comment_id, lines 144-150: GET the comments of the PR; an answer   *)
(* that is no list gives None.                                             *)
(***************************************************************************)
CommentList(a) ==
    /\ ag[a].pc = "comment_list"
    /\ \E o \in Outcomes :
          /\ Count(o)
          /\ LET p == number(ag[a])
             IN  /\ ag' = [ag EXCEPT ![a] =
                       IF raised(o) THEN crash(@, "comment_list")
                       ELSE [called(@, "comment_list", o) EXCEPT
                                !.pc = "comment_write",
                                !.comment_id = IF o = "ok"
                                               THEN bot_comment_id(first_page(comments[p]))
                                               ELSE 0]]
                 /\ hist' = [hist EXCEPT ![a][p].failed =
                       IF failed_call("comment_list", o) THEN @ \cup {"comment_list"} ELSE @]
    /\ UNCHANGED <<platform, epoch, envMoves, classifier>>

\* The platform replaces the body of the comment with this id.
patch_comment(cs, id, body) ==
    [i \in DOMAIN cs |-> IF cs[i].id = id THEN [cs[i] EXCEPT !.body = body] ELSE cs[i]]

(***************************************************************************)
(* _upsert_comment, lines 156-159: PATCH the comment found, or POST a new  *)
(* one; then _handle_pr, line 198: the merge is requested or the PR is     *)
(* done.                                                                   *)
(***************************************************************************)
CommentWrite(a) ==
    /\ ag[a].pc = "comment_write"
    /\ \E o \in Outcomes :
          /\ Count(o)
          /\ LET p == number(ag[a])
                 status == ag[a].status
                 body == full_body(comment_text(status, label_map(status)))
                 comment_id == ag[a].comment_id
                 kind == IF comment_id # 0 THEN "comment_update" ELSE "comment_create"
                 merging == should_merge(status, current(ag[a]))
             IN  /\ comments' =
                       IF ~carried(o) THEN comments
                       ELSE IF comment_id # 0
                       THEN [comments EXCEPT ![p] = patch_comment(@, comment_id, body)]
                       ELSE [comments EXCEPT ![p] = Append(@, [id |-> nextId, body |-> body])]
                 /\ nextId' = IF carried(o) /\ comment_id = 0 THEN nextId + 1 ELSE nextId
                 /\ ag' = [ag EXCEPT ![a] =
                       IF raised(o) THEN crash(@, kind)
                       ELSE IF merging THEN [called(@, kind, o) EXCEPT !.pc = "merge"]
                       ELSE next_pr(called(@, kind, o))]
                 /\ hist' = [hist EXCEPT ![a][p] =
                       IF raised(o) THEN @
                       ELSE [@ EXCEPT
                               !.commentOp = kind,
                               !.commentId = IF comment_id # 0 THEN comment_id
                                             ELSE IF carried(o) THEN nextId ELSE 0,
                               !.commentBody = body,
                               !.upsertDone = TRUE,
                               !.failed = IF failed_call(kind, o) THEN @ \cup {kind} ELSE @,
                               !.handled = ~merging]]
    /\ UNCHANGED <<registry, open, labels, checks, past, epoch, envMoves, classifier>>

(***************************************************************************)
(* _handle_pr, lines 200-208: PUT the squash merge and report the answer.  *)
(* The platform merges an open PR and answers merged: true; it may also    *)
(* refuse (an HTTP error, so None) or answer without a true "merged".  A   *)
(* merge whose answer is lost has merged the PR and reports nothing; one   *)
(* whose answer is empty has merged the PR and is reported as failed.      *)
(***************************************************************************)
Merge(a) ==
    /\ ag[a].pc = "merge"
    /\ \E o \in Outcomes \cup (IF faults < MaxFaults THEN {"not_merged"} ELSE {}) :
          /\ Count(o)
          /\ LET p == number(ag[a])
                 merge_result ==
                     IF o = "ok" /\ open[p] THEN [kind |-> "dict", merged |-> TRUE]
                     ELSE IF o = "not_merged" THEN [kind |-> "dict", merged |-> FALSE]
                     ELSE NoneResponse
             IN  /\ open' = IF carried(o) THEN [open EXCEPT ![p] = FALSE] ELSE open
                 /\ ag' = [ag EXCEPT ![a] =
                       IF raised(o) THEN crash(@, "merge")
                       ELSE next_pr(called(@, "merge",
                                IF merge_result = NoneResponse THEN "http_error" ELSE "ok"))]
                 /\ hist' = [hist EXCEPT ![a][p] =
                       IF raised(o)
                       THEN [@ EXCEPT !.mergeReqs = @ + 1,
                                      !.mergedSha = IF o = "lost" /\ open[p] THEN head(p)
                                                    ELSE @]
                       ELSE [@ EXCEPT !.mergeReqs = @ + 1,
                                      !.mergeResult = merge_result,
                                      !.mergedSha = IF carried(o) /\ open[p] THEN head(p)
                                                    ELSE @,
                                      !.report = merge_report(merge_result),
                                      !.handled = TRUE]]
    /\ UNCHANGED <<registry, labels, checks, past, comments, nextId, epoch, envMoves,
                   classifier>>

(***************************************************************************)
(* Other users of the repository, while a run is under way or before one:  *)
(* a label is put on or taken off a PR, the check runs of a PR change, a   *)
(* comment is written.                                                     *)
(***************************************************************************)
Handling == {"status", "delete", "add", "comment_list", "comment_write", "merge"}
Busy ==
    \/ \E a \in Agents : ag[a].pc \in Handling
    \/ \E a \in Agents : a > 1 /\ ag[a].pc = "idle" /\ ag[a - 1].pc = "done"
EnvPRs == {1}
EnvLabels == {LABEL_AUTO_MERGE, LABEL_FAILING}
EnvCheckChoices ==
    { <<Run("completed", "success"), Run("completed", "skipped")>>,
      <<Run("completed", "success"), Run("completed", "failure")>> }

EnvLabel(p, l) ==
    /\ Busy /\ envMoves < MaxEnv /\ open[p]
    /\ envMoves' = envMoves + 1
    /\ labels' = [labels EXCEPT ![p] = IF l \in @ THEN @ \ {l} ELSE @ \cup {l}]
    /\ epoch' = [epoch EXCEPT ![p] = @ + 1]
    /\ UNCHANGED <<registry, open, checks, past, comments, nextId, ag, hist, faults,
                   classifier>>

EnvChecks(p, c) ==
    /\ Busy /\ envMoves < MaxEnv /\ open[p]
    /\ c # checks[p]
    /\ envMoves' = envMoves + 1
    /\ checks' = [checks EXCEPT ![p] = c]
    /\ UNCHANGED <<registry, open, labels, past, comments, nextId, ag, hist, epoch, faults,
                   classifier>>

EnvComment(p) ==
    /\ Busy /\ envMoves < MaxEnv /\ open[p]
    /\ envMoves' = envMoves + 1
    /\ comments' = [comments EXCEPT ![p] = Append(@, UserComment(nextId))]
    /\ nextId' = nextId + 1
    /\ UNCHANGED <<registry, open, labels, checks, past, ag, hist, epoch, faults, classifier>>

Env ==
    \/ \E p \in EnvPRs, l \in EnvLabels : EnvLabel(p, l)
    \/ \E p \in EnvPRs, c \in EnvCheckChoices : EnvChecks(p, c)
    \/ \E p \in EnvPRs : EnvComment(p)

Step(a) ==
    \/ EnsureGet(a)
    \/ EnsurePost(a)
    \/ ListPage(a)
    \/ CiStatus(a)
    \/ DeleteLabel(a)
    \/ AddLabel(a)
    \/ CommentList(a)
    \/ CommentWrite(a)
    \/ Merge(a)

\* One run.
Next ==
    \/ Start(1)
    \/ \E a \in Agents : Step(a)
    \/ Env

Spec == Init /\ [][Next]_vars

\* NumAgents runs, which start in any order and follow one another or overlap.
NextRuns ==
    \/ \E a \in Agents : Start(a)
    \/ \E a \in Agents : Step(a)
    \/ Env

\* The runs are followed on a repository whose only open PR is the first.
InitRuns == Init /\ \A p \in PRs : open[p] <=> p = 1

(***************************************************************************)
(* Several runs are followed from fewer starting states than one run: the  *)
(* first PR starts without labels, with a stale label and auto-merge, or   *)
(* with every label; without check runs or with successful ones.           *)
(***************************************************************************)
RunsLabels == { {}, {LABEL_FAILING, LABEL_AUTO_MERGE}, Labels }
RunsChecks == { <<>>, <<Run("completed", "success"), Run("completed", "skipped")>> }
InitFew == InitRuns /\ labels[1] \in RunsLabels /\ checks[1] \in RunsChecks

SpecRuns == InitFew /\ [][NextRuns]_vars

(***************************************************************************)
(* One run that is not stopped from outside: the interpreter executes the  *)
(* next statement of the script, and every request it waits for ends (in   *)
(* an answer, an HTTP error or another error).                             *)
(***************************************************************************)
SpecLive == Init /\ [][Next]_vars /\ WF_vars(\E a \in Agents : Step(a))

(***************************************************************************)
(* Other users push to a PR and open PRs.  A push gives the PR a new head  *)
(* commit, which starts without check runs or with a failed one; the check *)
(* runs of the former head stay as they were.  A PR that is opened has the *)
(* highest number and comes first in the listing, so that the PRs listed   *)
(* before move one place down.                                             *)
(***************************************************************************)
PushChoices == { <<>>, <<Run("completed", "success"), Run("completed", "failure")>> }

EnvPush(p, c) ==
    /\ Busy /\ envMoves < MaxEnv /\ open[p]
    /\ envMoves' = envMoves + 1
    /\ past' = [past EXCEPT ![p] = Append(@, checks[p])]
    /\ checks' = [checks EXCEPT ![p] = c]
    /\ UNCHANGED <<registry, open, labels, comments, nextId, ag, hist, epoch, faults,
                   classifier>>

EnvOpen(p) ==
    /\ \E a \in Agents : ag[a].pc = "list"
    /\ envMoves < MaxEnv
    /\ ~open[p]
    /\ \A q \in PRs : open[q] => q < p
    /\ \A a \in Agents : ~hist[a][p].listed
    /\ envMoves' = envMoves + 1
    /\ open' = [open EXCEPT ![p] = TRUE]
    /\ UNCHANGED <<registry, labels, checks, past, comments, nextId, ag, hist, epoch,
                   faults, classifier>>

\* One run, on a repository whose PRs are pushed to and where PRs are opened.
NextRaces ==
    \/ Next
    \/ \E p \in EnvPRs, c \in PushChoices : EnvPush(p, c)
    \/ \E p \in PRs : EnvOpen(p)

SpecRaces == InitRuns /\ [][NextRaces]_vars

(***************************************************************************)
(* The classifier alone: every answer to the check-run request with up to  *)
(* MaxRuns check runs, and None.                                           *)
(***************************************************************************)
InitClassify ==
    /\ Quiet
    /\ registry = {}
    /\ open = [p \in PRs |-> TRUE]
    /\ labels = [p \in PRs |-> {}]
    /\ checks = [p \in PRs |-> <<>>]
    /\ past = [p \in PRs |-> <<>>]
    /\ comments = [p \in PRs |-> <<>>]
    /\ cr_result \in {None} \cup {CheckRunsAnswer(r) : r \in SeqsUpTo(CheckRun, MaxRuns)}
    /\ cr_status = "none"

Classify ==
    /\ cr_status = "none"
    /\ cr_status' = ci_status(cr_result)
    /\ UNCHANGED <<platform, ag, hist, epoch, faults, envMoves, cr_result>>

SpecClassify == InitClassify /\ [][Classify]_vars


(***************************************************************************)
(*                              The claims                                 *)
(***************************************************************************)
HardFailures == {"failure", "timed_out", "cancelled"}
Successes == {"success", "neutral", "skipped"}
LabelRequests == {"label_delete", "label_add"}
MarkedCount(cs) == Cardinality({i \in DOMAIN cs : contains_marker(cs[i].body)})
Classified == cr_status # "none" /\ cr_result.kind = "dict"
cr_runs == cr_result.check_runs
cr_conclusions == {cr_runs[i].conclusion : i \in DOMAIN cr_runs} \ {NoConclusion}
cr_all_completed == \A i \in DOMAIN cr_runs : cr_runs[i].status = "completed"

(***************************************************************************)
(* C1: for every sequence of check runs _ci_status returns the state of    *)
(* the ordered rules: no run -> pending; a run that is not completed ->    *)
(* pending; no conclusion at all -> pending; a conclusion among failure,   *)
(* timed_out, cancelled -> failing; all conclusions among success,         *)
(* neutral, skipped -> passing; anything else -> pending.  A run that is   *)
(* not completed wins over a failure of another run.                       *)
(***************************************************************************)
C1_ClassifierRules ==
    Classified =>
        /\ Len(cr_runs) = 0 => cr_status = "pending"
        /\ ~cr_all_completed => cr_status = "pending"
        /\ cr_all_completed /\ cr_conclusions = {} => cr_status = "pending"
        /\ cr_all_completed /\ cr_conclusions \cap HardFailures # {}
              => cr_status = "failing"
        /\ cr_all_completed /\ cr_conclusions # {} /\ cr_conclusions \subseteq Successes
              => cr_status = "passing"
        /\ cr_all_completed /\ cr_conclusions \cap HardFailures = {}
              /\ ~(cr_conclusions \subseteq Successes) => cr_status = "pending"
        /\ cr_status \in {"pending", "failing", "passing"}

\* A run in progress beside a failed one has been classified (as pending).
C1_Witness ==
    /\ Classified
    /\ \E i, j \in DOMAIN cr_runs :
          /\ cr_runs[i].status = "in_progress"
          /\ cr_runs[j].status = "completed" /\ cr_runs[j].conclusion = "failure"
    /\ cr_status = "pending"

(***************************************************************************)
(* C2, as claimed: when _set_ci_label has run for a PR with target label T *)
(* the CI labels on the PR are exactly {T}.  The starting label set of the *)
(* call is the one listed for the PR (line 170), and the labels are looked *)
(* at as the call left them.                                               *)
(***************************************************************************)
C2_Original ==
    \A a \in Agents, p \in PRs :
        hist[a][p].labelsDone /\ epoch[p] = hist[a][p].epoch
            => labels[p] \cap CI_LABELS = {label_map(hist[a][p].status)}

(***************************************************************************)
(* C2, amended: when _set_ci_label has run for a PR with target label T,   *)
(* the CI labels on the PR are T, unless the addition request for T        *)
(* failed, and every stale CI label whose removal request failed: the call *)
(* ignores the answers and repeats nothing.  They are exactly {T} if and   *)
(* only if no request of the call failed.                                  *)
(***************************************************************************)
C2_LabelsAfterReconcile ==
    \A a \in Agents, p \in PRs :
        hist[a][p].labelsDone /\ epoch[p] = hist[a][p].epoch
            => LET T == label_map(hist[a][p].status)
                   kept == {l \in CI_LABELS : <<"DELETE", l>> \in hist[a][p].failedReqs}
                   added == IF <<"POST", T>> \in hist[a][p].failedReqs THEN {} ELSE {T}
               IN  /\ labels[p] \cap CI_LABELS = added \cup kept
                   /\ labels[p] \cap CI_LABELS = {T} <=> hist[a][p].failedReqs = {}

\* A reconciliation that removed two stale labels and added the target has run.
C2_Witness ==
    \E a \in Agents, p \in PRs :
        /\ hist[a][p].labelsDone /\ epoch[p] = hist[a][p].epoch
        /\ hist[a][p].failed = {}
        /\ Cardinality(hist[a][p].labelReqs) = 3
        /\ labels[p] \cap CI_LABELS = {label_map(hist[a][p].status)}

(***************************************************************************)
(* C3: every removal and addition request of a run names one of the three  *)
(* CI labels, and no step of a run changes the other labels of any PR      *)
(* (auto-merge among them).                                                *)
(***************************************************************************)
C3_RequestsNameCiLabels ==
    \A a \in Agents, p \in PRs : \A r \in hist[a][p].labelReqs : r[2] \in CI_LABELS
C3_StepKeepsOtherLabels ==
    (\E a \in Agents : Step(a)) => \A p \in PRs : labels'[p] \ CI_LABELS = labels[p] \ CI_LABELS
C3_OnlyCiLabelsTouched == [](C3_RequestsNameCiLabels) /\ [][C3_StepKeepsOtherLabels]_vars

\* A run has removed and added labels on a PR that carries auto-merge and another label.
C3_Witness ==
    \E a \in Agents, p \in PRs :
        /\ hist[a][p].labelsDone /\ hist[a][p].failed = {}
        /\ \E r1, r2 \in hist[a][p].labelReqs : r1[1] = "DELETE" /\ r2[1] = "POST"
        /\ {LABEL_AUTO_MERGE, OTHER_LABEL} \subseteq labels[p]


\* No run started while another was under way: the runs followed one another.
InARow == \A a \in Agents : ~ag[a].overlapped

\* Run a had started when run b started.
Before(a, b) == a \in ag[b].before

(***************************************************************************)
(* C4, as claimed: when two runs in a row reconcile the labels of a PR     *)
(* with the same target label, and nobody else changes the labels of the   *)
(* PR, the second reconciliation issues no removal and no addition.        *)
(***************************************************************************)
C4_Original ==
    \A a, b \in Agents, p \in PRs :
        /\ Before(a, b) /\ InARow
        /\ hist[a][p].labelsDone /\ hist[b][p].labelsDone
        /\ hist[a][p].status = hist[b][p].status
        /\ epoch[p] = hist[a][p].epoch
        => hist[b][p].labelReqs = {}

(***************************************************************************)
(* C4, amended: under the same conditions the second reconciliation issues *)
(* exactly the removal and addition requests of the first that failed (the *)
(* first ignored their answers and left the labels as they were); it       *)
(* issues none if and only if none of the first failed.                    *)
(***************************************************************************)
C4_SecondDelta ==
    \A a, b \in Agents, p \in PRs :
        /\ Before(a, b) /\ InARow
        /\ hist[a][p].labelsDone /\ hist[b][p].labelsDone
        /\ hist[a][p].status = hist[b][p].status
        /\ epoch[p] = hist[a][p].epoch
        => /\ hist[b][p].labelReqs = hist[a][p].failedReqs
           /\ hist[b][p].labelReqs = {} <=> hist[a][p].failedReqs = {}

\* A first reconciliation that changed labels, then a second one with nothing to do.
C4_Witness ==
    \E a, b \in Agents, p \in PRs :
        /\ Before(a, b) /\ InARow
        /\ hist[a][p].labelsDone /\ hist[b][p].labelsDone
        /\ hist[a][p].status = hist[b][p].status
        /\ epoch[p] = hist[a][p].epoch
        /\ hist[a][p].failed = {}
        /\ Cardinality(hist[a][p].labelReqs) >= 2
        /\ hist[b][p].labelReqs = {}

(***************************************************************************)
(* C5, as claimed, on runs that follow one another and in which no request *)
(* failed: after every _upsert_comment on a PR that started without a      *)
(* marked comment, exactly one comment of the PR holds the marker.         *)
(***************************************************************************)
C5_Original ==
    \A a \in Agents, p \in PRs :
        hist[a][p].upsertDone /\ faults = 0 /\ InARow => MarkedCount(comments[p]) = 1

(***************************************************************************)
(* C6, as claimed, on runs that follow one another and in which no request *)
(* failed: the upsert of the second of two runs creates no comment; it     *)
(* updates the comment the first run created, whose body becomes the       *)
(* marker, a newline and the second body.                                  *)
(***************************************************************************)
C6_Original ==
    \A a, b \in Agents, p \in PRs :
        /\ Before(a, b)
        /\ hist[a][p].upsertDone /\ hist[b][p].upsertDone
        /\ faults = 0 /\ InARow
        => /\ hist[b][p].commentOp = "comment_update"
           /\ hist[b][p].commentId = hist[a][p].commentId
           /\ \E i \in DOMAIN comments[p] :
                 /\ comments[p][i].id = hist[a][p].commentId
                 /\ comments[p][i].body =
                       <<BOT_COMMENT_MARKER, "\n">> \o
                       comment_text(hist[b][p].status, label_map(hist[b][p].status))
           /\ MarkedCount(comments[p]) = 1

(***************************************************************************)
(* C7: while a run handles a PR, a merge is requested only if the CI state *)
(* computed is passing and auto-merge was among the labels listed for the  *)
(* PR; and once the PR is handled, it has been requested exactly in that   *)
(* case.                                                                   *)
(***************************************************************************)
C7_MergeGate ==
    \A a \in Agents, p \in PRs :
        LET gate == hist[a][p].status = "passing" /\ LABEL_AUTO_MERGE \in hist[a][p].existing
        IN  /\ hist[a][p].mergeReqs > 0 => gate
            /\ hist[a][p].handled => (hist[a][p].mergeReqs > 0 <=> gate)

\* A merge was requested for a PR that lost auto-merge after it was listed.
C7_Witness ==
    \E a \in Agents, p \in PRs :
        /\ hist[a][p].handled /\ hist[a][p].mergeReqs > 0
        /\ LABEL_AUTO_MERGE \notin labels[p]

(***************************************************************************)
(* C8, as claimed: whatever the answer to a merge request, the request     *)
(* raises nothing and the outcome is reported: as done only for an answer  *)
(* with a true "merged", as a failure for anything else; and the run goes  *)
(* on with the next PR of its list (or ends with exit code 0 after the     *)
(* last).                                                                  *)
(***************************************************************************)
C8_Original ==
    \A a \in Agents, p \in PRs :
        hist[a][p].mergeReqs > 0 =>
            /\ hist[a][p].report \in {"merged", "failed"}
            /\ hist[a][p].report = "merged"
                  <=> hist[a][p].mergeResult = [kind |-> "dict", merged |-> TRUE]
            /\ \E i \in DOMAIN ag[a].prs :
                  /\ ag[a].prs[i].number = p
                  /\ \/ ag[a].idx > i
                     \/ i = Len(ag[a].prs) /\ ag[a].pc = "done" /\ ag[a].exit = 0

(***************************************************************************)
(* C9: a run without the token or without the repository name ends with    *)
(* exit code 1 and has issued no request: no label looked up or created,   *)
(* no PR listed, no PR handled.                                            *)
(***************************************************************************)
C9_ConfigAbort ==
    \A a \in Agents :
        ag[a].pc # "idle" /\ ~(ag[a].token /\ ag[a].repo)
            => /\ ag[a].pc = "done" /\ ag[a].exit = 1
               /\ ag[a].calls = {}
               /\ ag[a].prs = <<>>
               /\ \A p \in PRs : hist[a][p] = NoHistory

\* A run with the token but without the repository name has ended.
C9_Witness ==
    \E a \in Agents : ag[a].pc = "done" /\ ag[a].token /\ ~ag[a].repo /\ ag[a].exit = 1

C11_Original ==
    \A a \in Agents :
        ag[a].pc = "done" /\ ag[a].idx >= 1
            => \A j \in DOMAIN ag[a].prs :
                  j > ag[a].idx => hist[a][ag[a].prs[j].number].handled

(***************************************************************************)
(* C12: a run handles no PR before the listing has ended on a short page;  *)
(* for each PR the requests come in the order check runs, label removals,  *)
(* label addition, comment listing, comment creation or update, merge; and *)
(* every request for a PR is made while the run is at that PR, after the   *)
(* PRs before it are handled and before the PRs after it are touched.      *)
(***************************************************************************)
AfterRemovals == {"add", "comment_list", "comment_write", "merge"}
AfterLabels == {"comment_list", "comment_write", "merge"}
C12_ListedBeforeHandled ==
    \A a \in Agents :
        ag[a].idx >= 1 \/ ag[a].pc \in Handling
            => /\ "pr_list" \in ag[a].calls
               /\ Len(ag[a].prs) < ag[a].page * PerPage
C12_OrderInState ==
    \A a \in Agents : \A i \in DOMAIN ag[a].prs :
        LET h == hist[a][ag[a].prs[i].number]
        IN  /\ i > ag[a].idx => /\ h.status = "none" /\ h.labelReqs = {}
                                /\ h.commentOp = "none" /\ h.mergeReqs = 0
            /\ i < ag[a].idx => h.handled
            /\ h.labelReqs # {} => h.status # "none"
            /\ h.commentOp # "none" => h.labelsDone
            /\ h.mergeReqs > 0 => h.upsertDone
            /\ i = ag[a].idx /\ ag[a].pc \in AfterRemovals => ag[a].stale = {}
            /\ i = ag[a].idx /\ ag[a].pc \in AfterLabels => h.labelsDone
            /\ i = ag[a].idx /\ ag[a].pc = "merge" => h.upsertDone
C12_OrderInStep ==
    \A a \in Agents :
        /\ ag'[a].prs # ag[a].prs => ag[a].pc = "list" /\ ag[a].idx = 0
        /\ \A p \in PRs :
              hist'[a][p] # hist[a][p] /\ ag[a].pc # "list"
                  => ag[a].idx >= 1 /\ p = number(ag[a])
C12_RequestOrder ==
    [](C12_ListedBeforeHandled /\ C12_OrderInState) /\ [][C12_OrderInStep]_vars

\* A run has handled two PRs: labels removed and added and a comment written for each, one merged.
C12_Witness ==
    \E a \in Agents :
        /\ ag[a].pc = "done" /\ ag[a].exit = 0 /\ Len(ag[a].prs) = 2
        /\ \A i \in DOMAIN ag[a].prs :
              LET h == hist[a][ag[a].prs[i].number]
              IN  /\ \E r1, r2 \in h.labelReqs : r1[1] = "DELETE" /\ r2[1] = "POST"
                  /\ h.upsertDone /\ h.handled
        /\ hist[a][ag[a].prs[1].number].mergeReqs = 1

(***************************************************************************)
(* C13, as claimed: after a failed removal or addition of a label, the     *)
(* comment upsert and the merge decision of the same PR are still carried  *)
(* out: when the run has ended, the upsert of the PR has been made and the *)
(* merge has been requested if and only if the gate held.                  *)
(***************************************************************************)
C13_Original ==
    \A a \in Agents, p \in PRs :
        ag[a].pc = "done" /\ hist[a][p].failed \cap LabelRequests # {}
            => /\ hist[a][p].upsertDone
               /\ hist[a][p].handled
               /\ hist[a][p].mergeReqs > 0
                     <=> should_merge(hist[a][p].status, hist[a][p].existing)

(***************************************************************************)
(* C15, as claimed: when a completed check run has a conclusion outside    *)
(* success, neutral, skipped, failure, timed_out, cancelled, the state     *)
(* returned is pending, whatever the other runs report.                    *)
(***************************************************************************)
cr_unknown ==
    \E i \in DOMAIN cr_runs :
        /\ cr_runs[i].status = "completed"
        /\ cr_runs[i].conclusion \notin Successes \cup HardFailures \cup {NoConclusion}
C15_Original == Classified /\ cr_unknown => cr_status = "pending"

(***************************************************************************)
(* C15, amended: with such a conclusion the state returned is never        *)
(* passing; it is failing when every run is completed and one of them      *)
(* concluded failure, timed_out or cancelled, and pending otherwise.       *)
(***************************************************************************)
C15_UnknownNeverPassing ==
    Classified /\ cr_unknown =>
        /\ cr_status # "passing"
        /\ cr_status = "failing"
              <=> cr_all_completed /\ cr_conclusions \cap HardFailures # {}
        /\ cr_status # "failing" => cr_status = "pending"

\* A run that concluded stale beside a successful one has been classified (as pending).
C15_Witness ==
    /\ Classified /\ cr_all_completed
    /\ cr_conclusions = {"success", "stale"}
    /\ cr_status = "pending"

(***************************************************************************)
(* C16, as claimed (the module documentation, lines 8-11): the label       *)
(* targeted is ci-failing whenever at least one check failed, ci-passing   *)
(* when all checks succeeded, needs-review when no check run is reported.  *)
(* Check runs are taken as the platform reports them: only a completed run *)
(* has a conclusion.                                                       *)
(***************************************************************************)
cr_well_formed ==
    \A i \in DOMAIN cr_runs :
        cr_runs[i].status # "completed" <=> cr_runs[i].conclusion = NoConclusion
C16_Original ==
    Classified /\ cr_well_formed =>
        /\ (\E i \in DOMAIN cr_runs : cr_runs[i].conclusion = "failure")
              => label_map(cr_status) = LABEL_FAILING
        /\ cr_runs # <<>> /\ (\A i \in DOMAIN cr_runs : cr_runs[i].conclusion = "success")
              => label_map(cr_status) = LABEL_PASSING
        /\ cr_runs = <<>> => label_map(cr_status) = LABEL_NEEDS_REVIEW

(***************************************************************************)
(* C14, as claimed: a run issues at most one merge request for a PR (so a  *)
(* merge request that failed is not made again in the same run).           *)
(***************************************************************************)
C14_Original == \A a \in Agents, p \in PRs : hist[a][p].mergeReqs <= 1

(***************************************************************************)
(* C19, as claimed: when a merge request of the agent has merged a PR, the *)
(* head commit merged is the commit that was listed for the PR, whose      *)
(* check runs the agent classified as passing.                             *)
(***************************************************************************)
C19_Original ==
    \A a \in Agents, p \in PRs :
        hist[a][p].mergedSha # 0
            => /\ hist[a][p].status = "passing"
               /\ LABEL_AUTO_MERGE \in hist[a][p].existing
               /\ hist[a][p].mergedSha = hist[a][p].sha

(***************************************************************************)
(* C17, as claimed, on the runs in which no request raised an error: a run *)
(* that passed the configuration checks ends only after its listing ended  *)
(* on a short page and every PR of its list was handled.                   *)
(***************************************************************************)
ListingEnded(a) == "pr_list" \in ag[a].calls /\ Len(ag[a].prs) < ag[a].page * PerPage
AllHandled(a) == \A i \in DOMAIN ag[a].prs : hist[a][ag[a].prs[i].number].handled
C17_WaysToEnd ==
    \A a \in Agents :
        ag[a].pc = "done" /\ ag[a].token /\ ag[a].repo =>
            \/ /\ ag[a].exit = 0 /\ ~ag[a].crashed /\ "pr_list" \notin ag[a].failed
               /\ ListingEnded(a) /\ AllHandled(a)
            \/ /\ ag[a].exit = 1 /\ ~ag[a].crashed /\ "pr_list" \in ag[a].failed
               /\ \A p \in PRs : hist[a][p].status = "none"
            \/ ag[a].exit = 1 /\ ag[a].crashed
C17_Ends == \A a \in Agents : ag[a].pc # "idle" ~> ag[a].pc = "done"
C18_Original ==
    \A p \in PRs :
        /\ faults = 0 /\ envMoves = 0 /\ InARow
        /\ \E a \in Agents : hist[a][p].handled
        => /\ Cardinality(labels[p] \cap CI_LABELS) <= 1
           /\ MarkedCount(comments[p]) <= 1

=============================================================================
